---- MODULE Spec2Model ----
(***************************************************************************)
(* Simple HDRI Controller (simple_hdri_controller.py): the world node      *)
(* graph synchronizer, the three property update callbacks and the Load    *)
(* and Reset operators, over the host's scene / world / node / link /      *)
(* image collections.                                                      *)
(*                                                                         *)
(* Representation.  A scene is a string, "None" the absent scene.  A node  *)
(* is its index in its world's node sequence, 0 the absent node.  An image *)
(* is its index in bpy.data.images, 0 the absent image.  Angles in radians *)
(* are integers in micro-radians; rotation_deg and strength are integers.  *)
(* A node name is [base, n]: n = 0 is the bare name, n = k the host's      *)
(* ".00k" suffix that keeps names unique in a node tree.  After            *)
(* unregister() no scene has a record: registered is FALSE and props holds *)
(* the values the host still stores in the scenes, which nothing can read  *)
(* until register() defines the records again.                            *)
(***************************************************************************)
EXTENDS Integers, Sequences, FiniteSets, TLC

VARIABLES
    scenes,     \* bpy.data.scenes, a sequence of scenes
    ctxScene,   \* bpy.context.scene, "None" in a restricted context
    world,      \* scene -> [exists, tree, use_nodes, nodes, links]
    images,     \* bpy.data.images, a sequence of [filepath, type]
    props,      \* scene -> scene.shdri_props = [image, rotation_deg, strength]
    registered, \* bpy.types.Scene.shdri_props is defined: the records exist
    start,      \* scene -> the kind of world graph the scene began with
    last        \* the operation that ran last, its inputs and its result

vars == <<scenes, ctxScene, world, images, props, registered, start, last>>

\* ------------------------------------------------------------------ bounds
MaxNodes == 8
MaxImages == 2

\* ------------------------------------------------------------ input sets
AllScenes == {"A", "B"}
Degrees == {-90, 45, 90}
Strengths == {-1, 3}
\* A file path: blend = TRUE is the host's "//file" form, relative to the
\* directory of the open .blend file; otherwise dir/file as written.
Path(bl, d, f) == [blend |-> bl, dir |-> d, file |-> f]
EmptyPath == Path(FALSE, "", "")
BlendDir == "/proj"
Paths == {EmptyPath, Path(TRUE, "", "a.hdr"), Path(FALSE, "/proj", "a.hdr"),
          Path(FALSE, "/proj", "b.exr")}
OneFile == {p \in Paths : p.file # "b.exr"}
ImageTypes == {"IMAGE", "MULTILAYER"}
HostErrors == {"file not found", "unsupported format"}

\* ---------------------------------------------------------- host objects
Name(b) == [base |-> b, n |-> 0]

NewNode(nm, kind, loc) ==
    [name |-> nm, type |-> kind, location |-> loc,
     rotation |-> <<0, 0, 0>>, strength |-> 1, image |-> 0]

Link(fn, fs, tn, ts) == [fn |-> fn, fs |-> fs, tn |-> tn, ts |-> ts]

NoWorld == [exists |-> FALSE, tree |-> FALSE, use_nodes |-> FALSE,
            nodes |-> <<>>, links |-> {}]

NoHandle == [ok |-> FALSE, scene |-> "None", out |-> 0, bg |-> 0, env |-> 0,
             mapping |-> 0, texcoord |-> 0]

DefaultProps == [image |-> 0, rotation_deg |-> 0, strength |-> 1]

\* world.use_nodes = True on a world without a node tree: the host builds
\* its default tree, a Background shader linked to a World Output.
DefaultTree ==
    [exists |-> TRUE, tree |-> TRUE, use_nodes |-> TRUE,
     nodes |-> <<NewNode(Name("Background"), "BACKGROUND", <<10, 300>>),
                 NewNode(Name("World Output"), "OUTPUT_WORLD", <<300, 300>>)>>,
     links |-> {Link(1, "Background", 2, "Surface")}]

UseNodes(w) ==
    IF w.tree THEN [w EXCEPT !.use_nodes = TRUE] ELSE DefaultTree

\* ------------------------------------------------------------ _safe_scene
SafeScene(ctx) ==
    IF ctx # "None" THEN ctx
    ELSE IF ctxScene # "None" THEN ctxScene
    ELSE IF Len(scenes) > 0 THEN scenes[1]
    ELSE "None"

\* ------------------------------------------------- nodes.get / nodes.new
NodesGet(nodes, b) ==
    IF \E i \in 1..Len(nodes) : nodes[i].name = Name(b)
    THEN CHOOSE i \in 1..Len(nodes) : nodes[i].name = Name(b)
    ELSE 0

\* node.name = b: the host keeps names unique, so the renamed node takes the
\* first free suffix when another node already holds b.
UniqueName(nodes, b) ==
    LET used == {nodes[i].name.n : i \in {j \in 1..Len(nodes) : nodes[j].name.base = b}}
    IN  [base |-> b, n |-> CHOOSE k \in 0..Len(nodes) :
                               k \notin used /\ \A m \in 0..(k - 1) : m \in used]

EnsureNode(nodes, b, kind, loc) ==
    LET found == NodesGet(nodes, b)
    IN  IF found # 0 /\ nodes[found].type = kind
        THEN [nodes |-> nodes, id |-> found]
        ELSE [nodes |-> Append(nodes, NewNode(UniqueName(nodes, b), kind, loc)),
              id |-> Len(nodes) + 1]

\* ------------------------------------------------- links.new / link_once
\* links.new: an input socket holds one link, the host drops the link that
\* was in the destination socket.
\* Variant: clear the links and relink in bulk.
LinksNewBulk(links, fn, fs, tn, ts) == {Link(fn, fs, tn, ts)}

LinksNew(links, fn, fs, tn, ts) ==
    {l \in links : ~(l.tn = tn /\ l.ts = ts)} \cup {Link(fn, fs, tn, ts)}

LinkOnce(links, fn, fs, tn, ts) ==
    IF \E l \in links : l.tn = tn /\ l.ts = ts /\ l.fn = fn /\ l.fs = fs
    THEN links
    ELSE LinksNew(links, fn, fs, tn, ts)

\* ------------------------------------------------ ensure_world_node_setup
\* The body after the scene is resolved, on that scene's world.
SetupWorld(w0) ==
    LET w   == UseNodes(w0)
        o   == EnsureNode(w.nodes, "World Output", "OUTPUT_WORLD", <<600, 0>>)
        b   == EnsureNode(o.nodes, "HDRI Background", "BACKGROUND", <<400, 0>>)
        e   == EnsureNode(b.nodes, "HDRI Environment", "TEX_ENVIRONMENT", <<200, 0>>)
        m   == EnsureNode(e.nodes, "HDRI Mapping", "MAPPING", <<0, 0>>)
        t   == EnsureNode(m.nodes, "HDRI TexCoord", "TEX_COORD", <<-200, 0>>)
        l1  == LinkOnce(w.links, t.id, "Generated", m.id, "Vector")
        l2  == LinkOnce(l1, m.id, "Vector", e.id, "Vector")
        l3  == LinkOnce(l2, e.id, "Color", b.id, "Color")
        l4  == LinkOnce(l3, b.id, "Background", o.id, "Surface")
    IN  [world |-> [exists |-> TRUE, tree |-> TRUE, use_nodes |-> TRUE,
                    nodes |-> t.nodes, links |-> l4],
         out |-> o.id, bg |-> b.id, env |-> e.id, mapping |-> m.id,
         texcoord |-> t.id]

\* W is the scene -> world map; the result is the new map and the handle.
EnsureWorldNodeSetup(W, ctx) ==
    LET scene == SafeScene(ctx)
    IN  IF scene = "None"
        THEN [W |-> W, handle |-> NoHandle]
        ELSE LET r == SetupWorld(W[scene])
             IN  [W |-> [W EXCEPT ![scene] = r.world],
                  handle |-> [ok |-> TRUE, scene |-> scene, out |-> r.out,
                              bg |-> r.bg, env |-> r.env, mapping |-> r.mapping,
                              texcoord |-> r.texcoord]]

\* ------------------------------------------------------------- setters
\* math.radians, in micro-radians rounded to the nearest.  One degree is
\* 17453.2925199432957692 micro-radians; the product of |degrees| and the
\* fraction is computed in limbs of four decimal digits (fraction 2925 1994
\* 3295 7692, degrees hi lo), so that no step leaves 32 bits.  The result
\* itself fits 32 bits for |degrees| <= 123041.
RadiansAbs(d) ==
    LET lo == d % 10000
        hi == d \div 10000
        t1 == lo * 3295 + hi * 7692 + ((lo * 7692) \div 10000)
        t2 == lo * 1994 + hi * 3295 + (t1 \div 10000)
        t3 == lo * 2925 + hi * 1994 + (t2 \div 10000)
        t4 == hi * 2925 + (t3 \div 10000)
    IN  d * 17453 + t4 + (IF t3 % 10000 >= 5000 THEN 1 ELSE 0)

radians(degrees) ==
    IF degrees >= 0 THEN RadiansAbs(degrees) ELSE -RadiansAbs(-degrees)

\* The setters' bodies after the call of ensure_world_node_setup, whose
\* result is r; imgs is bpy.data.images at the time of the call.
ImageOn(r, image, imgs) ==
    IF ~r.handle.ok THEN r
    ELSE [r EXCEPT !.W[r.handle.scene].nodes[r.handle.env].image =
             IF image # 0 /\ imgs[image].type = "IMAGE" THEN image ELSE 0]

\* Variant: a fresh vector is written instead of the node's own.
RotationOnOverwrite(r, degrees) ==
    IF ~r.handle.ok THEN r
    ELSE [r EXCEPT !.W[r.handle.scene].nodes[r.handle.mapping].rotation =
             <<0, 0, radians(degrees)>>]

RotationOn(r, degrees) ==
    IF ~r.handle.ok THEN r
    ELSE [r EXCEPT !.W[r.handle.scene].nodes[r.handle.mapping].rotation[3] =
             radians(degrees)]

StrengthOn(r, strength) ==
    IF ~r.handle.ok THEN r
    ELSE [r EXCEPT !.W[r.handle.scene].nodes[r.handle.bg].strength = strength]

ApplyHdriImage(W, ctx, image, imgs) ==
    ImageOn(EnsureWorldNodeSetup(W, ctx), image, imgs)

SetHdriRotationDeg(W, ctx, degrees) ==
    RotationOn(EnsureWorldNodeSetup(W, ctx), degrees)

SetHdriStrength(W, ctx, strength) ==
    StrengthOn(EnsureWorldNodeSetup(W, ctx), strength)

\* ---------------------------------------------- properties and callbacks
\* The host calls an update callback with bpy.context, whatever record the
\* write was made on; P is the scene -> props map after the write.
UpdateImage(W, P, s, imgs) == ApplyHdriImage(W, ctxScene, P[s].image, imgs)
UpdateRotation(W, P, s) == SetHdriRotationDeg(W, ctxScene, P[s].rotation_deg)
UpdateStrength(W, P, s) == SetHdriStrength(W, ctxScene, P[s].strength)

\* FloatProperty(min=0.0): the host clamps a written value to the hard minimum.
\* Variant: a soft minimum, which does not clamp.
StrengthUnclamped(v) == v

StrengthStored(v) == IF v < 0 THEN 0 ELSE v

\* rotation_deg has soft limits only: the written value is stored as is.
RotationStored(d) == d

Fits(W) == \A s \in AllScenes : Len(W[s].nodes) <= MaxNodes

SceneSet == {scenes[i] : i \in 1..Len(scenes)}

\* What an operation was called with: the scene whose record it wrote (for
\* Sync the scene it resolved), its argument, and what the host's image
\* loader did during it.
Call(op, scene, arg) ==
    [op |-> op, scene |-> scene, arg |-> arg, loader |-> "not called", err |-> ""]

Result(call, ret, level, msg, handle) ==
    [op |-> call.op, scene |-> call.scene, arg |-> call.arg,
     loader |-> call.loader, err |-> call.err,
     ret |-> ret, level |-> level, msg |-> msg, handle |-> handle]

\* ---------------------------------------------------------------- actions
\* The host state an operation leaves behind: the worlds of r, the handle
\* of its last synchronization in the result record.
Commit(r, call, ret, level, msg) ==
    /\ Fits(r.W)
    /\ world' = r.W
    /\ last' = Result(call, ret, level, msg, r.handle)

\* ensure_world_node_setup(ctx), called on its own.
Sync(ctx) ==
    /\ \E r \in {EnsureWorldNodeSetup(world, ctx)} :
           Commit(r, Call("sync", r.handle.scene, ctx),
                  IF r.handle.ok THEN "handle" ELSE "None", "", <<>>)
    /\ UNCHANGED <<scenes, ctxScene, images, props, registered, start>>

\* scene.shdri_props.image = image, and the update callback the write fires.
WriteImage(s, image) ==
    /\ registered
    /\ props' = [props EXCEPT ![s].image = image]
    /\ \E r \in {UpdateImage(world, props', s, images)} :
           Commit(r, Call("image", s, image), "None", "", <<>>)
    /\ UNCHANGED <<scenes, ctxScene, images, registered, start>>

\* scene.shdri_props.rotation_deg = degrees.
WriteRotation(s, degrees) ==
    /\ registered
    /\ props' = [props EXCEPT ![s].rotation_deg = RotationStored(degrees)]
    /\ \E r \in {UpdateRotation(world, props', s)} :
           Commit(r, Call("rotation", s, degrees), "None", "", <<>>)
    /\ UNCHANGED <<scenes, ctxScene, images, registered, start>>

\* scene.shdri_props.strength = v.
WriteStrength(s, v) ==
    /\ registered
    /\ props' = [props EXCEPT ![s].strength = StrengthStored(v)]
    /\ \E r \in {UpdateStrength(world, props', s)} :
           Commit(r, Call("strength", s, v), "None", "", <<>>)
    /\ UNCHANGED <<scenes, ctxScene, images, registered, start>>

\* apply_hdri_image(ctx, image), called on its own.
DirectImage(ctx, image) ==
    /\ \E r \in {ApplyHdriImage(world, ctx, image, images)} :
           Commit(r, Call("apply_hdri_image", r.handle.scene, image), "None", "", <<>>)
    /\ UNCHANGED <<scenes, ctxScene, images, props, registered, start>>

\* set_hdri_rotation_deg(ctx, degrees), called on its own.
DirectRotation(ctx, degrees) ==
    /\ \E r \in {SetHdriRotationDeg(world, ctx, degrees)} :
           Commit(r, Call("set_hdri_rotation_deg", r.handle.scene, degrees),
                  "None", "", <<>>)
    /\ UNCHANGED <<scenes, ctxScene, images, props, registered, start>>

\* set_hdri_strength(ctx, strength), called on its own: no clamp here.
DirectStrength(ctx, strength) ==
    /\ \E r \in {SetHdriStrength(world, ctx, strength)} :
           Commit(r, Call("set_hdri_strength", r.handle.scene, strength),
                  "None", "", <<>>)
    /\ UNCHANGED <<scenes, ctxScene, images, props, registered, start>>

\* unregister(): del bpy.types.Scene.shdri_props removes every record; the
\* host refuses it (AttributeError) when the property is not defined.
Unregister ==
    /\ registered
    /\ registered' = FALSE
    /\ last' = Result(Call("unregister", "None", "None"), "None", "", <<>>, NoHandle)
    /\ UNCHANGED <<scenes, ctxScene, world, images, props, start>>

\* register() after unregister(): the records exist again, no callback
\* runs.  Whether a record shows the values stored before or the defaults
\* is the host's choice; register_class refuses a registered class.
Register ==
    /\ ~registered
    /\ registered' = TRUE
    /\ props' \in {props, [s \in AllScenes |-> DefaultProps]}
    /\ last' = Result(Call("register", "None", "None"), "None", "", <<>>, NoHandle)
    /\ UNCHANGED <<scenes, ctxScene, world, images, start>>

\* bpy.path.abspath: only the "//" form is resolved, against the .blend's
\* directory; any other path is returned as written.
Abspath(p) == IF p.blend THEN Path(FALSE, BlendDir, p.file) ELSE p

\* Variant: the paths are compared as written, unresolved.
FindLoadedRaw(imgs, filepath) ==
    LET hits == {i \in 1..Len(imgs) : imgs[i].filepath = filepath}
    IN  IF hits = {} THEN 0 ELSE CHOOSE i \in hits : \A j \in hits : i <= j

\* next((i for i in bpy.data.images if abspath(i.filepath) == abspath), None)
FindLoaded(imgs, filepath) ==
    LET hits == {i \in 1..Len(imgs) : Abspath(imgs[i].filepath) = Abspath(filepath)}
    IN  IF hits = {} THEN 0 ELSE CHOOSE i \in hits : \A j \in hits : i <= j

\* SHDRI_OT_load_hdri.execute from line 182 on: img is in imgs.
\* Without the records, scene.shdri_props raises AttributeError and the
\* image the loader appended stays in the collection.
LoadApply(call, ctx, img, imgs) ==
    /\ images' = imgs
    /\ IF call.scene # "None" /\ ~registered
       THEN /\ last' = Result(call, "AttributeError", "", <<>>, NoHandle)
            /\ UNCHANGED <<props, world>>
       ELSE /\ props' = IF call.scene # "None"
                        THEN [props EXCEPT ![call.scene].image = img]
                        ELSE props
            /\ \E r \in {IF call.scene # "None"
                          THEN UpdateImage(world, props', call.scene, imgs)
                          ELSE ApplyHdriImage(world, ctx, img, imgs)} :
                   Commit(r, call, "FINISHED", "INFO",
                          <<"HDRI loaded: ", imgs[img].filepath.file>>)

\* Variant: the record's image is cleared before the report.
LoadReportClears(call, level, msg) ==
    /\ last' = Result(call, "CANCELLED", level, msg, NoHandle)
    /\ props' = [s \in AllScenes |-> [props[s] EXCEPT !.image = 0]]
    /\ UNCHANGED <<images, world>>

\* self.report(level, msg); return {'CANCELLED'}
LoadReport(call, level, msg) ==
    /\ last' = Result(call, "CANCELLED", level, msg, NoHandle)
    /\ UNCHANGED <<images, props, world>>

\* Variant: no test of an empty filepath.
LoadUnguarded(ctx, filepath) ==
    /\ UNCHANGED <<scenes, ctxScene, registered, start>>
    /\ \E call \in {Call("load", SafeScene(ctx), filepath)},
          found \in {FindLoaded(images, filepath)} :
         IF found # 0
         THEN LoadApply(call, ctx, found, images)
         ELSE \/ \E e \in HostErrors :
                   LoadReport([call EXCEPT !.loader = "raised", !.err = e],
                              "ERROR", <<"Failed to load image: ", e>>)
              \/ \E ty \in ImageTypes :
                   /\ Len(images) < MaxImages
                   /\ LoadApply([call EXCEPT !.loader = "loaded"], ctx,
                                Len(images) + 1,
                                Append(images, [filepath |-> filepath, type |-> ty]))

\* SHDRI_OT_load_hdri.execute(context) with self.filepath = filepath; the
\* host's loader either raises e or appends the image it decoded.
Load(ctx, filepath) ==
    /\ UNCHANGED <<scenes, ctxScene, registered, start>>
    /\ \E call \in {Call("load", SafeScene(ctx), filepath)},
          found \in {FindLoaded(images, filepath)} :
         IF filepath = EmptyPath
         THEN LoadReport(call, "WARNING", <<"No file selected">>)
         ELSE IF found # 0
         THEN LoadApply(call, ctx, found, images)
         ELSE \/ \E e \in HostErrors :
                   LoadReport([call EXCEPT !.loader = "raised", !.err = e],
                              "ERROR", <<"Failed to load image: ", e>>)
              \/ \E ty \in ImageTypes :
                   /\ Len(images) < MaxImages
                   /\ LoadApply([call EXCEPT !.loader = "loaded"], ctx,
                                Len(images) + 1,
                                Append(images, [filepath |-> filepath, type |-> ty]))

\* Variant: the record is reset and the graph synchronized, but the values
\* are not pushed to the nodes.
ResetNoPush(ctx) ==
    /\ UNCHANGED <<scenes, ctxScene, images, registered, start>>
    /\ \E scene \in {SafeScene(ctx)} :
         IF scene = "None"
         THEN /\ last' = Result(Call("reset", scene, ctx), "CANCELLED", "", <<>>, NoHandle)
              /\ UNCHANGED <<props, world>>
         ELSE IF ~registered
         THEN /\ last' = Result(Call("reset", scene, ctx), "AttributeError", "", <<>>,
                                NoHandle)
              /\ UNCHANGED <<props, world>>
         ELSE /\ props' = [props EXCEPT ![scene].rotation_deg = RotationStored(0),
                                         ![scene].strength = StrengthStored(1)]
              /\ \E r \in {EnsureWorldNodeSetup(world, ctxScene)} :
                     Commit(r, Call("reset", scene, ctx), "FINISHED", "INFO",
                            <<"HDRI settings reset">>)

\* SHDRI_OT_reset.execute(context): two writes, each firing its callback;
\* without the records, scene.shdri_props raises AttributeError.
Reset(ctx) ==
    /\ UNCHANGED <<scenes, ctxScene, images, registered, start>>
    /\ \E scene \in {SafeScene(ctx)} :
         IF scene = "None"
         THEN /\ last' = Result(Call("reset", scene, ctx), "CANCELLED", "", <<>>, NoHandle)
              /\ UNCHANGED <<props, world>>
         ELSE IF ~registered
         THEN /\ last' = Result(Call("reset", scene, ctx), "AttributeError", "", <<>>,
                                NoHandle)
              /\ UNCHANGED <<props, world>>
         ELSE \E P1 \in {[props EXCEPT ![scene].rotation_deg = RotationStored(0)]} :
              \E r1 \in {UpdateRotation(world, P1, scene)} :
                /\ props' = [P1 EXCEPT ![scene].strength = StrengthStored(1)]
                /\ \E r2 \in {UpdateStrength(r1.W, props', scene)} :
                       Commit(r2, Call("reset", scene, ctx), "FINISHED", "INFO",
                              <<"HDRI settings reset">>)

\* ------------------------------------------------------------ initial state
\* World graphs a scene can have before the add-on first touches it.
UserNode(b) == NewNode(Name(b), "OTHER", <<0, 300>>)

StartWorld(kind) ==
    CASE kind = "none"    -> NoWorld
      [] kind = "notree"  -> [NoWorld EXCEPT !.exists = TRUE]
      [] kind = "default" -> DefaultTree
      [] kind = "user"    ->
           [exists |-> TRUE, tree |-> TRUE, use_nodes |-> TRUE,
            nodes |-> <<NewNode(Name("World Output"), "OUTPUT_WORLD", <<300, 300>>),
                        UserNode("Sky"), UserNode("Gradient")>>,
            links |-> {Link(2, "Color", 1, "Surface"), Link(3, "Color", 2, "Vector")}]
      [] kind = "wrong"   ->
           [exists |-> TRUE, tree |-> TRUE, use_nodes |-> FALSE,
            nodes |-> <<NewNode(Name("World Output"), "OUTPUT_WORLD", <<300, 300>>),
                        UserNode("HDRI Background")>>,
            links |-> {Link(2, "Emission", 1, "Surface")}]
      [] kind = "built"   ->
           LET r == SetupWorld(NoWorld)
           IN  [r.world EXCEPT !.nodes[r.mapping].rotation = <<100000, 200000, 0>>]

StartKinds == {"none", "notree", "default", "user", "wrong", "built"}

InitWith(ss, ctxs, kinds) ==
    /\ scenes = ss
    /\ ctxScene \in ctxs
    /\ start \in [AllScenes -> kinds \cup {"none"}]
    /\ \A s \in AllScenes : s \notin {ss[i] : i \in 1..Len(ss)} => start[s] = "none"
    /\ world = [s \in AllScenes |-> StartWorld(start[s])]
    /\ images = <<>>
    /\ props = [s \in AllScenes |-> DefaultProps]
    /\ registered = TRUE
    /\ last = Result(Call("init", "None", "None"), "None", "", <<>>, NoHandle)

\* One scene, or none at all; bpy.context has the scene or, restricted, none.
Init ==
    \E ss \in {<<>>, <<"A">>} :
        InitWith(ss, {"None"} \cup {ss[i] : i \in 1..Len(ss)}, StartKinds)

\* Two scenes, each with no world or the default one; either is active.
InitMulti == InitWith(<<"A", "B">>, {"None", "A", "B"}, {"none", "default"})

Contexts == {"None"} \cup SceneSet

\* The add-on as the host drives it: the synchronizer, the three property
\* writes, the two operators, unregister and register.
AddonOver(degs, strs, paths) ==
    \/ \E ctx \in Contexts : Sync(ctx)
    \/ \E s \in SceneSet, i \in 0..Len(images) : WriteImage(s, i)
    \/ \E s \in SceneSet, d \in degs : WriteRotation(s, d)
    \/ \E s \in SceneSet, v \in strs : WriteStrength(s, v)
    \/ \E ctx \in Contexts, fp \in paths : Load(ctx, fp)
    \/ \E ctx \in Contexts : Reset(ctx)
    \/ Unregister
    \/ Register

\* The module-level setters called from a script.
DirectOver(degs, strs) ==
    \/ \E ctx \in Contexts, i \in 0..Len(images) : DirectImage(ctx, i)
    \/ \E ctx \in Contexts, d \in degs : DirectRotation(ctx, d)
    \/ \E ctx \in Contexts, v \in strs : DirectStrength(ctx, v)

\* Every kind of starting world, with one file under its two spellings.
Next == AddonOver(Degrees, Strengths, OneFile)

Spec == Init /\ [][Next]_vars

\* No scene or one scene, with no world or with the pipeline already built.
InitCalls ==
    \E ss \in {<<>>, <<"A">>} :
        InitWith(ss, {"None"} \cup {ss[i] : i \in 1..Len(ss)}, {"none", "built"})

\* The loader's cases: two files, either image type, either error, from a
\* scene with no world or with the pipeline already built.
NextLoad == AddonOver({90}, {3}, Paths)

SpecLoad == InitCalls /\ [][NextLoad]_vars

\* The setters called directly as well, with one or two values of each
\* input kind.
NextCalls ==
    \/ AddonOver({90}, {3}, {EmptyPath, Path(FALSE, "/proj", "a.hdr")})
    \/ DirectOver({45}, {-1})

SpecCalls == InitCalls /\ [][NextCalls]_vars

\* The two-scene runs use one value of each input kind.
NextMulti == AddonOver({90}, {3}, {Path(FALSE, "/proj", "a.hdr")})

SpecMulti == InitMulti /\ [][NextMulti]_vars

\* ==================================================================== claims
RoleNames == {"World Output", "HDRI Background", "HDRI Environment",
              "HDRI Mapping", "HDRI TexCoord"}

\* The node of a role: the node that bears the reserved name, when it is of
\* the role's kind; 0 otherwise.
RoleNode(w, b, kind) ==
    IF \E i \in 1..Len(w.nodes) : w.nodes[i].name = Name(b) /\ w.nodes[i].type = kind
    THEN CHOOSE i \in 1..Len(w.nodes) : w.nodes[i].name = Name(b) /\ w.nodes[i].type = kind
    ELSE 0

Emitter(w) == RoleNode(w, "HDRI Background", "BACKGROUND")
Sampler(w) == RoleNode(w, "HDRI Environment", "TEX_ENVIRONMENT")
Transform(w) == RoleNode(w, "HDRI Mapping", "MAPPING")

HasPipeline(w) ==
    /\ RoleNode(w, "World Output", "OUTPUT_WORLD") # 0
    /\ Emitter(w) # 0 /\ Sampler(w) # 0 /\ Transform(w) # 0
    /\ RoleNode(w, "HDRI TexCoord", "TEX_COORD") # 0

\* The four required links between the nodes of a handle.
RequiredLinks(h) ==
    {Link(h.texcoord, "Generated", h.mapping, "Vector"),
     Link(h.mapping, "Vector", h.env, "Vector"),
     Link(h.env, "Color", h.bg, "Color"),
     Link(h.bg, "Background", h.out, "Surface")}

\* Degrees to micro-radians, from the table of values.
MicroRadians(d) ==
    CASE d = 0 -> 0 [] d = 45 -> 785398 [] d = 90 -> 1570796 [] d = -90 -> -1570796

Changes == {"image", "rotation", "strength"}
Setters == {"apply_hdri_image", "set_hdri_rotation_deg", "set_hdri_strength"}
Operations == Changes \cup Setters \cup {"sync", "load", "reset"}

\* C1 (original claim): after every synchronization the graph holds exactly
\* one node under each of the five reserved names and each of the four
\* required links, and a synchronization that follows another on the same
\* scene adds no node and no link.
C1_SyncIdempotent ==
    [][(last'.op = "sync" /\ last'.handle.ok) =>
         LET s == last'.handle.scene
         IN  /\ \A b \in RoleNames :
                  Cardinality({i \in 1..Len(world'[s].nodes) :
                                  world'[s].nodes[i].name = Name(b)}) = 1
             /\ RequiredLinks(last'.handle) \subseteq world'[s].links
             /\ (last.op = "sync" /\ last.handle.ok /\ last.handle.scene = s)
                  => /\ world'[s].nodes = world[s].nodes
                     /\ world'[s].links = world[s].links]_vars

\* C2 (original claim): with no scene at all, every mutating operation (the
\* synchronizer, the setters, Load with a filepath, Reset) leaves worlds,
\* images and properties as they were and returns cancelled or absent.
C2_NoSceneNoMutation ==
    [][(Len(scenes) = 0 /\ ctxScene = "None" /\ last'.op \in Operations
        /\ ~(last'.op = "load" /\ last'.arg = EmptyPath)) =>
         /\ UNCHANGED <<world, images, props>>
         /\ last'.ret \in {"CANCELLED", "None"}]_vars

\* C3: a Load of a path that resolves to the path of an image already in the
\* collection does not call the loader and leaves the collection as it is;
\* no two images loaded by Load resolve to one path; while the add-on is
\* registered the Load finishes and points the record's image at that
\* matching image.
C3_LoadReuses ==
    [][(last'.op = "load" /\ last'.arg # EmptyPath
        /\ \E i \in 1..Len(images) : Abspath(images[i].filepath) = Abspath(last'.arg)) =>
         /\ last'.loader = "not called"
         /\ images' = images
         /\ \A i, j \in 1..Len(images') :
               Abspath(images'[i].filepath) = Abspath(images'[j].filepath) => i = j
         /\ (registered \/ last'.scene = "None") => last'.ret = "FINISHED"
         /\ (registered /\ last'.scene # "None") =>
               /\ props'[last'.scene].image \in 1..Len(images)
               /\ Abspath(images[props'[last'.scene].image].filepath) = Abspath(last'.arg)]_vars

C3_Witness ==
    /\ last.op = "load" /\ last.ret = "FINISHED" /\ last.loader = "not called"
    /\ Len(images) = 1
    /\ images[1].filepath.blend /\ ~last.arg.blend
    /\ registered /\ last.scene = "A" /\ props["A"].image = 1

\* C4: when the loader raises, Load reports an error that carries the
\* loader's message, returns without success, and worlds, images and
\* properties are as before the call.
C4_LoadFailure ==
    [][(last'.op = "load" /\ last'.loader = "raised") =>
         /\ last'.level = "ERROR"
         /\ last'.msg = <<"Failed to load image: ", last'.err>>
         /\ last'.err \in HostErrors
         /\ last'.ret = "CANCELLED"
         /\ UNCHANGED <<world, images, props>>]_vars

C4_Witness ==
    /\ last.op = "load" /\ last.loader = "raised" /\ last.level = "ERROR"
    /\ last.scene = "A" /\ props["A"].image = 1 /\ HasPipeline(world["A"])

\* C5: Load with an empty filepath returns cancelled with a warning and
\* leaves properties, images and worlds as they were.
C5_LoadEmpty ==
    [][(last'.op = "load" /\ last'.arg = EmptyPath) =>
         /\ last'.ret = "CANCELLED"
         /\ last'.level = "WARNING"
         /\ last'.loader = "not called"
         /\ UNCHANGED <<world, images, props>>]_vars

C5_Witness ==
    /\ last.op = "load" /\ last.arg = EmptyPath /\ last.ret = "CANCELLED"
    /\ last.scene = "A" /\ ~world["A"].exists

\* C6: Reset of the registered add-on on an available scene finishes with rotation_deg = 0 and
\* strength = 1 in the scene's record, 0 in the third rotation component of
\* the transform node and 1 in the emitter's strength, in the pipeline of
\* that scene; the image field and the image of the sampler are as before.
C6_Reset ==
    [][(registered /\ last'.op = "reset" /\ last'.scene # "None") =>
         LET s == last'.scene
             h == last'.handle
         IN  /\ last'.ret = "FINISHED"
             /\ props'[s] = [props[s] EXCEPT !.rotation_deg = 0, !.strength = 1]
             /\ h.ok /\ h.scene = s
             /\ world'[s].nodes[h.mapping].type = "MAPPING"
             /\ world'[s].nodes[h.mapping].rotation[3] = 0
             /\ world'[s].nodes[h.bg].type = "BACKGROUND"
             /\ world'[s].nodes[h.bg].strength = 1
             /\ Sampler(world[s]) # 0 =>
                   /\ h.env = Sampler(world[s])
                   /\ world'[s].nodes[h.env].image = world[s].nodes[h.env].image]_vars

C6_Witness ==
    /\ registered /\ last.op = "reset" /\ last.ret = "FINISHED" /\ last.scene = "A"
    /\ props["A"] = [image |-> 1, rotation_deg |-> 0, strength |-> 1]
    /\ images[1].type = "IMAGE"
    /\ Sampler(world["A"]) # 0 /\ world["A"].nodes[Sampler(world["A"])].image = 1
    /\ \E i \in 1..Len(world["A"].nodes) :
          world["A"].nodes[i].type = "MAPPING" /\ world["A"].nodes[i].rotation[1] # 0

\* C7: a write of d to rotation_deg puts d in radians into the third
\* component of the transform node's rotation and leaves the first two
\* components, the emitter's strength and the sampler's image as before.
C7_Rotation ==
    [][(last'.op = "rotation" /\ last'.handle.ok) =>
         LET h == last'.handle
             w == world[h.scene]
             n == world'[h.scene].nodes
         IN  /\ n[h.mapping].type = "MAPPING"
             /\ n[h.mapping].rotation[3] = MicroRadians(last'.arg)
             /\ Transform(w) # 0 =>
                   /\ h.mapping = Transform(w)
                   /\ n[h.mapping].rotation[1] = w.nodes[h.mapping].rotation[1]
                   /\ n[h.mapping].rotation[2] = w.nodes[h.mapping].rotation[2]
             /\ Emitter(w) # 0 =>
                   n[Emitter(w)].strength = w.nodes[Emitter(w)].strength
             /\ Sampler(w) # 0 =>
                   n[Sampler(w)].image = w.nodes[Sampler(w)].image]_vars

C7_Witness ==
    /\ last.op = "rotation" /\ last.arg = 90 /\ last.handle.ok
    /\ start["A"] = "built"
    /\ world["A"].nodes[last.handle.mapping].rotation = <<100000, 200000, 1570796>>

\* C8: the stored strength and the strength of every background emitter are
\* never negative.
C8_StrengthNonNegative ==
    /\ \A s \in AllScenes : props[s].strength >= 0
    /\ \A s \in AllScenes : \A i \in 1..Len(world[s].nodes) :
          world[s].nodes[i].type = "BACKGROUND" => world[s].nodes[i].strength >= 0

C8_Witness ==
    /\ last.op = "strength" /\ last.arg = -1 /\ last.handle.ok
    /\ props[last.scene].strength = 0
    /\ world[last.handle.scene].nodes[last.handle.bg].strength = 0

\* C9 (original claim): a synchronization leaves every node and every link
\* that was in the graph in place and unchanged.
C9_NothingRemoved ==
    [][(last'.op = "sync" /\ last'.handle.ok) =>
         LET s == last'.handle.scene
         IN  /\ \A i \in 1..Len(world[s].nodes) : world'[s].nodes[i] = world[s].nodes[i]
             /\ world[s].links \subseteq world'[s].links]_vars

\* C9 (amended): a synchronization leaves every node in place and unchanged,
\* and every link except a link into one of the four destination sockets of
\* the pipeline, which the required link into that socket replaces.
C9_OnlyPipelineSocketsRelinked ==
    [][(last'.op = "sync" /\ last'.handle.ok) =>
         LET s == last'.handle.scene
             h == last'.handle
         IN  /\ Len(world'[s].nodes) >= Len(world[s].nodes)
             /\ \A i \in 1..Len(world[s].nodes) : world'[s].nodes[i] = world[s].nodes[i]
             /\ \A l \in world[s].links \ world'[s].links :
                   \E q \in RequiredLinks(h) :
                       /\ q.tn = l.tn /\ q.ts = l.ts
                       /\ q \in world'[s].links
             /\ world'[s].links \ world[s].links \subseteq RequiredLinks(h)]_vars

C9_Witness ==
    /\ last.op = "sync" /\ last.handle.ok /\ start["A"] = "user"
    /\ Link(3, "Color", 2, "Vector") \in world["A"].links
    /\ Link(2, "Color", 1, "Surface") \notin world["A"].links
    /\ Link(last.handle.bg, "Background", 1, "Surface") \in world["A"].links

\* C10 (original claim): while the add-on is registered, for a scene that
\* began without a pipeline, every
\* change of its record, Load and Reset has built the pipeline in its own
\* world, and while its pipeline exists the emitter's strength, the
\* transform's third rotation component and the sampler's image are those of
\* its record.
C10_Synchronized ==
    \A s \in SceneSet :
        (registered /\ start[s] \in {"none", "notree", "default", "user"}) =>
          /\ (last.scene = s /\ (last.op \in Changes
                                  \/ (last.op \in {"load", "reset"} /\ last.ret = "FINISHED")))
                => HasPipeline(world[s])
          /\ HasPipeline(world[s]) =>
                /\ world[s].nodes[Emitter(world[s])].strength = props[s].strength
                /\ world[s].nodes[Transform(world[s])].rotation[3]
                      = MicroRadians(props[s].rotation_deg)
                /\ world[s].nodes[Sampler(world[s])].image
                      = IF props[s].image # 0 /\ images[props[s].image].type = "IMAGE"
                        THEN props[s].image ELSE 0

====
